---- MODULE Spec2Model ----
(***************************************************************************)
(* Model of bycycle/spikes/plts.py: plot_spikes, plot_gaussian_fit and     *)
(* plot_gen_spikes.                                                        *)
(*                                                                         *)
(* Conventions.  A Python sequence of n items is a TLA+ sequence of length *)
(* n; Python position i is TLA+ position i+1.  None is the empty tuple and *)
(* a present optional value v is <<v>>.  A time i/fs on an axis built by   *)
(* np.arange(0, n/fs, 1/fs) is held as the sample number i (the value of   *)
(* fs*times that the code plots against); arithmetic is exact.  A fraction *)
(* is a record [num, den] with den > 0.                                    *)
(***************************************************************************)
EXTENDS Integers, Sequences, FiniteSets, TLC

\* ------------------------------------------------------------------ bounds
MaxLen == 3
MaxVal == 1
CenterDen == 3
MaxSpikes == 2
MaxSpikeLen == 2

Vals == 0..MaxVal
FsSet == {1, 2}
Thresholds == {1, 2}
Heights == {1}

None == <<>>
Some(v) == <<v>>
Val(o) == o[1]

Min(a, b) == IF a < b THEN a ELSE b
Max(a, b) == IF a > b THEN a ELSE b

SeqsUpTo(S, n) == UNION {[1..k -> S] : k \in 0..n}
SeqsFrom1(S, n) == UNION {[1..k -> S] : k \in 1..n}

RECURSIVE SumSeq(_)
SumSeq(s) == IF s = <<>> THEN 0 ELSE s[1] + SumSeq(Tail(s))

\* ------------------------------------------------------ python primitives
\* Python's normalisation of one slice bound against a length n.
SliceBound(i, n) == IF i < 0 THEN Max(i + n, 0) ELSE Min(i, n)

\* s[lo:hi]
PySlice(s, lo, hi) ==
    LET a == SliceBound(lo, Len(s))
        b == SliceBound(hi, Len(s))
    IN  IF a >= b THEN <<>> ELSE [i \in 1..(b - a) |-> s[a + i]]

\* s[lo:]
PySliceFrom(s, lo) ==
    LET a == SliceBound(lo, Len(s))
    IN  [i \in 1..(Len(s) - a) |-> s[a + i]]

\* s[:hi]
PySliceTo(s, hi) ==
    LET b == SliceBound(hi, Len(s))
    IN  [i \in 1..b |-> s[i]]

\* int(x) of the fraction num/den: truncation toward zero.
PyInt(num, den) == IF num >= 0 THEN num \div den ELSE -((-num) \div den)

\* round(x) of the fraction num/den: nearest integer, ties to even.
PyRound(num, den) ==
    LET fl == num \div den
        r2 == 2 * (num - fl * den)
    IN  IF r2 < den THEN fl
        ELSE IF r2 > den THEN fl + 1
        ELSE IF fl % 2 = 0 THEN fl ELSE fl + 1

\* np.arange(0, n/fs, 1/fs), as sample numbers.
Arange(n) == [i \in 1..n |-> i - 1]

\* np.argmin: position (0-based) of the first minimum.
ArgMin(s) == CHOOSE i \in 0..(Len(s) - 1) :
                 /\ \A j \in 1..Len(s) : s[i + 1] <= s[j]
                 /\ \A j \in 1..i : s[j] > s[i + 1]

\* ------------------------------------------------- external collaborators
\* neurodsp sim_skewed_gaussian_cycle(n_seconds, fs, center, std, alpha,
\* height): a pulse of round(n_seconds*fs) samples, peaking at the sample
\* nearest center*n_seconds.
SimLen(n_seconds, fs) == PyRound(n_seconds.num * fs, n_seconds.den)

sim_skewed_gaussian_cycle(n_seconds, fs, center, height) ==
    LET n == Max(SimLen(n_seconds, fs), 0)
        c == PyInt(center.num * n, center.den)
    IN  [i \in 1..n |-> IF i - 1 = c THEN height ELSE 0]

\* scipy.stats.zscore: (x - mean)/std with the population std.  An empty
\* input gives an empty output; a constant input gives 0/0 = NaN in every
\* position; nothing is raised.  A finite z-score dev*sqrt(n/q) is held as
\* the exact triple (dev, n, q), dev = n*x - sum, q = sum of dev^2.
ZDev(a) == [i \in 1..Len(a) |-> Len(a) * a[i] - SumSeq(a)]

ZQ(a) == SumSeq([i \in 1..Len(a) |-> ZDev(a)[i] * ZDev(a)[i]])

zscore(a) ==
    [i \in 1..Len(a) |->
        IF ZQ(a) = 0 THEN [nan |-> TRUE, dev |-> 0, n |-> Len(a), q |-> 0]
        ELSE [nan |-> FALSE, dev |-> ZDev(a)[i], n |-> Len(a), q |-> ZQ(a)]]

\* ------------------------------------------------------------------ state
VARIABLES
    call,           \* which function was invoked ("none" before the call)
    args,           \* the arguments of the invocation
    pc,             \* plot_gaussian_fit: the stage about to run
    stages,         \* plot_gaussian_fit: the stages run so far, in order
    sig_cyc, times_cyc, na_gaus, na_center, rem_sig,
    rem_sig_k, rem_sig_cond, times_k, times_cond,
    z_score_k, z_score_cond,
    cond_params, k_params, cond_gaus, k_gaus,
    figs,           \* the figures shown so far, each a sequence of lines
    raised,         \* the exception that ended the call ("none" if none)
    modes,          \* plot_spikes: the branches whose body ran
    lines           \* plot_spikes / plot_gen_spikes: the lines drawn

gfvars == <<pc, stages, sig_cyc, times_cyc, na_gaus, na_center, rem_sig,
            rem_sig_k, rem_sig_cond, times_k, times_cond,
            z_score_k, z_score_cond, cond_params, k_params,
            cond_gaus, k_gaus, figs>>

vars == <<call, args, gfvars, raised, modes, lines>>

\* plt.plot(x, y): one line of a figure.
Line(x, y) == [x |-> x, y |-> y]

\* plt.plot(y): the x axis is 0 .. len(y)-1.
LineY(y) == [x |-> Arange(Len(y)), y |-> y]

\* plt.plot(x, y) raises ValueError when x and y differ in length.
PlotOK(x, y) == Len(x) = Len(y)

\* ------------------------------------------------------ plot_gaussian_fit
Frac(n, d) == [num |-> n, den |-> d]

CenterFractions == {Frac(n, CenterDen) : n \in (-CenterDen)..(2 * CenterDen)}

\* One row of the feature table, as plot_gaussian_fit reads it.
GaussianRows ==
    [sample_start : -1..MaxLen, sample_end : -1..MaxLen,
     Na_center : CenterFractions, Na_height : Heights,
     Cond_center : {Frac(1, 2)}, Cond_height : Heights,
     K_center : {Frac(1, 2)}, K_height : Heights]

GFCall ==
    /\ call = "none"
    /\ \E df \in GaussianRows, s \in SeqsUpTo(Vals, MaxLen), f \in FsSet,
          tc \in Thresholds, tk \in Thresholds :
          args' = [df_features |-> df, sig |-> s, fs |-> f,
                   z_thresh_cond |-> tc, z_thresh_k |-> tk]
    /\ call' = "plot_gaussian_fit"
    /\ pc' = "extract"
    /\ UNCHANGED <<stages, sig_cyc, times_cyc, na_gaus, na_center, rem_sig,
                   rem_sig_k, rem_sig_cond, times_k, times_cond,
                   z_score_k, z_score_cond, cond_params, k_params,
                   cond_gaus, k_gaus, figs, raised, modes, lines>>

\* Variant: the end sample left out, sig[start:end].
ExtractCycleExclusive(s, start, end) == PySlice(s, start, end)

\* sig[start:end+1]
ExtractCycle(s, start, end) == PySlice(s, start, end + 1)

Extract ==
    /\ call = "plot_gaussian_fit" /\ pc = "extract"
    /\ sig_cyc' = ExtractCycle(args.sig, args.df_features.sample_start,
                               args.df_features.sample_end)
    /\ times_cyc' = Arange(Len(sig_cyc'))
    /\ stages' = Append(stages, "extract")
    /\ pc' = "primary"
    /\ UNCHANGED <<call, args, na_gaus, na_center, rem_sig,
                   rem_sig_k, rem_sig_cond, times_k, times_cond,
                   z_score_k, z_score_cond, cond_params, k_params,
                   cond_gaus, k_gaus, figs, raised, modes, lines>>

\* plot_sing_gaus(gaus, sig, current_type)
plot_sing_gaus(gaus, s, current_type) ==
    [title |-> current_type, lines |-> <<LineY(gaus), LineY(s)>>]

SynthPrimary ==
    /\ call = "plot_gaussian_fit" /\ pc = "primary"
    /\ na_gaus' = sim_skewed_gaussian_cycle(
                      Frac(Len(sig_cyc), args.fs), args.fs,
                      args.df_features.Na_center, args.df_features.Na_height)
    /\ figs' = Append(figs, plot_sing_gaus(na_gaus', sig_cyc, "Na"))
    /\ stages' = Append(stages, "primary")
    /\ pc' = "residual"
    /\ UNCHANGED <<call, args, sig_cyc, times_cyc, na_center, rem_sig,
                   rem_sig_k, rem_sig_cond, times_k, times_cond,
                   z_score_k, z_score_cond, cond_params, k_params,
                   cond_gaus, k_gaus, raised, modes, lines>>

\* Variant: round(df_features['Na_center'] * cyc_len).
SplitIndexRounded(center, cyc_len) == PyRound(center.num * cyc_len, center.den)

\* int(df_features['Na_center'] * cyc_len)
SplitIndex(center, cyc_len) == PyInt(center.num * cyc_len, center.den)

\* a - b on arrays of one length
Sub(a, b) == [i \in 1..Len(a) |-> a[i] - b[i]]

Residual ==
    /\ call = "plot_gaussian_fit" /\ pc = "residual"
    /\ na_center' = SplitIndex(args.df_features.Na_center, Len(sig_cyc))
    /\ IF Len(sig_cyc) = Len(na_gaus)
       THEN /\ rem_sig' = Sub(sig_cyc, na_gaus)
            /\ stages' = Append(stages, "residual")
            /\ pc' = "split"
            /\ UNCHANGED raised
       ELSE /\ raised' = "ValueError"
            /\ pc' = "raised"
            /\ UNCHANGED <<rem_sig, stages>>
    /\ UNCHANGED <<call, args, sig_cyc, times_cyc, na_gaus,
                   rem_sig_k, rem_sig_cond, times_k, times_cond,
                   z_score_k, z_score_cond, cond_params, k_params,
                   cond_gaus, k_gaus, figs, modes, lines>>

\* Variant: the potassium region starting one sample late.
RegionKSkip(a, n) == PySliceFrom(a, n + 1)

\* rem_sig[na_center:] and times_cyc[na_center:]
RegionK(a, n) == PySliceFrom(a, n)

\* rem_sig[:na_center] and times_cyc[:na_center]
RegionCond(a, n) == PySliceTo(a, n)

Split ==
    /\ call = "plot_gaussian_fit" /\ pc = "split"
    /\ rem_sig_k' = RegionK(rem_sig, na_center)
    /\ rem_sig_cond' = RegionCond(rem_sig, na_center)
    /\ times_k' = RegionK(times_cyc, na_center)
    /\ times_cond' = RegionCond(times_cyc, na_center)
    /\ IF PlotOK(times_k', rem_sig_k') /\ PlotOK(times_cond', rem_sig_cond')
       THEN /\ figs' = Append(figs,
                   [title |-> "Remaining signal",
                    lines |-> <<Line(times_k', rem_sig_k'),
                                Line(times_cond', rem_sig_cond')>>])
            /\ stages' = Append(stages, "split")
            /\ pc' = "normalize"
            /\ UNCHANGED raised
       ELSE /\ raised' = "ValueError"
            /\ pc' = "raised"
            /\ UNCHANGED <<figs, stages>>
    /\ UNCHANGED <<call, args, sig_cyc, times_cyc, na_gaus, na_center,
                   rem_sig, z_score_k, z_score_cond, cond_params, k_params,
                   cond_gaus, k_gaus, modes, lines>>

\* np.array([z_thresh for i in range(len(times))])
ThreshLine(times, z_thresh) == [i \in 1..Len(times) |-> z_thresh]

\* z > z_thresh for a z-score dev * sqrt(n / q)
Exceeds(z, z_thresh) ==
    ~z.nan /\ z.dev > 0 /\ z.dev * z.dev * z.n > z_thresh * z_thresh * z.q

\* Variant: a region whose z-score passes its threshold ends the call
\* before the secondary fits.
NormalizeGated ==
    /\ call = "plot_gaussian_fit" /\ pc = "normalize"
    /\ z_score_k' = zscore(rem_sig_k)
    /\ z_score_cond' = zscore(rem_sig_cond)
    /\ figs' = Append(figs,
           [title |-> "z-scores",
            lines |-> <<Line(times_k, z_score_k'),
                        Line(times_cond, z_score_cond'),
                        Line(times_k, ThreshLine(times_k, args.z_thresh_k)),
                        Line(times_cond,
                             ThreshLine(times_cond, args.z_thresh_cond))>>])
    /\ stages' = Append(stages, "normalize")
    /\ pc' = IF \/ \E i \in 1..Len(z_score_k') :
                      Exceeds(z_score_k'[i], args.z_thresh_k)
                \/ \E i \in 1..Len(z_score_cond') :
                      Exceeds(z_score_cond'[i], args.z_thresh_cond)
             THEN "done" ELSE "secondary"
    /\ UNCHANGED <<call, args, sig_cyc, times_cyc, na_gaus, na_center,
                   rem_sig, rem_sig_k, rem_sig_cond, times_k, times_cond,
                   cond_params, k_params, cond_gaus, k_gaus,
                   raised, modes, lines>>

Normalize ==
    /\ call = "plot_gaussian_fit" /\ pc = "normalize"
    /\ z_score_k' = zscore(rem_sig_k)
    /\ z_score_cond' = zscore(rem_sig_cond)
    /\ figs' = Append(figs,
           [title |-> "z-scores",
            lines |-> <<Line(times_k, z_score_k'),
                        Line(times_cond, z_score_cond'),
                        Line(times_k, ThreshLine(times_k, args.z_thresh_k)),
                        Line(times_cond,
                             ThreshLine(times_cond, args.z_thresh_cond))>>])
    /\ stages' = Append(stages, "normalize")
    /\ pc' = "secondary"
    /\ UNCHANGED <<call, args, sig_cyc, times_cyc, na_gaus, na_center,
                   rem_sig, rem_sig_k, rem_sig_cond, times_k, times_cond,
                   cond_params, k_params, cond_gaus, k_gaus,
                   raised, modes, lines>>

\* cond_params: [len(rem_sig_cond)/fs, fs, Cond_center, ..., Cond_height]
CondParams(df, fs, region_cond, region_k) ==
    [n_seconds |-> Frac(Len(region_cond), fs), fs |-> fs,
     center |-> df.Cond_center, height |-> df.Cond_height]

\* Variant: the potassium fit synthesized over the conductive duration.
KParamsCondLen(df, fs, region_cond, region_k) ==
    [n_seconds |-> Frac(Len(region_cond), fs), fs |-> fs,
     center |-> df.K_center, height |-> df.K_height]

\* k_params: [len(rem_sig_k)/fs, fs, K_center, ..., K_height]
KParams(df, fs, region_cond, region_k) ==
    [n_seconds |-> Frac(Len(region_k), fs), fs |-> fs,
     center |-> df.K_center, height |-> df.K_height]

Sim(p) == sim_skewed_gaussian_cycle(p.n_seconds, p.fs, p.center, p.height)

SynthSecondary ==
    /\ call = "plot_gaussian_fit" /\ pc = "secondary"
    /\ cond_params' = CondParams(args.df_features, args.fs,
                                 rem_sig_cond, rem_sig_k)
    /\ k_params' = KParams(args.df_features, args.fs, rem_sig_cond, rem_sig_k)
    /\ cond_gaus' = Sim(cond_params')
    /\ k_gaus' = Sim(k_params')
    /\ figs' = figs \o <<plot_sing_gaus(cond_gaus', rem_sig_cond, "Conductive"),
                         plot_sing_gaus(k_gaus', rem_sig_k, "K")>>
    /\ stages' = Append(stages, "secondary")
    /\ pc' = "overlay"
    /\ UNCHANGED <<call, args, sig_cyc, times_cyc, na_gaus, na_center,
                   rem_sig, rem_sig_k, rem_sig_cond, times_k, times_cond,
                   z_score_k, z_score_cond, raised, modes, lines>>

\* The x axes of the two secondary fits in the last figure.
OverlayKAxis(tk, tcond) == tk

OverlayCondAxis(tk, tcond) == tcond

Overlay ==
    /\ call = "plot_gaussian_fit" /\ pc = "overlay"
    /\ LET kx == OverlayKAxis(times_k, times_cond)
           cx == OverlayCondAxis(times_k, times_cond)
       IN  IF PlotOK(kx, k_gaus) /\ PlotOK(cx, cond_gaus)
           THEN /\ figs' = Append(figs,
                       [title |-> "All gaussian fits found",
                        lines |-> <<LineY(sig_cyc), LineY(na_gaus),
                                    Line(kx, k_gaus), Line(cx, cond_gaus)>>])
                /\ stages' = Append(stages, "overlay")
                /\ pc' = "done"
                /\ UNCHANGED raised
           ELSE /\ raised' = "ValueError"
                /\ pc' = "raised"
                /\ UNCHANGED <<figs, stages>>
    /\ UNCHANGED <<call, args, sig_cyc, times_cyc, na_gaus, na_center,
                   rem_sig, rem_sig_k, rem_sig_cond, times_k, times_cond,
                   z_score_k, z_score_cond, cond_params, k_params,
                   cond_gaus, k_gaus, modes, lines>>

\* ------------------------------------------------------------ plot_spikes
\* A line handed to plot_time_series / plot_bursts: axis, data, the xlim
\* argument of the call (None when the call passes none) and the burst mask.
PLine(x, y, xlim, mask) == [x |-> x, y |-> y, xlim |-> xlim, mask |-> mask]

\* A test signal whose sample i has the value i.
Ramp(n) == [i \in 1..n |-> i - 1]

\* One row of the feature table, as plot_spikes reads it.  sample_center
\* is sample_trough or sample_peak and sample_next is sample_next_peak or
\* sample_next_trough, according to the center extrema.
SpikeRows ==
    {[sample_start |-> a, sample_end |-> b, period |-> b - a,
      sample_center |-> a, sample_next |-> b] :
        a \in -1..MaxLen, b \in -1..MaxLen}

\* A second cycle, lying inside the signal, for tables of two rows.
SecondRows ==
    {[sample_start |-> a, sample_end |-> a + 1, period |-> 1,
      sample_center |-> a, sample_next |-> a + 1] : a \in 0..1}

SpikeTables ==
    {<<r>> : r \in SpikeRows} \cup {<<r, q>> : r \in SpikeRows, q \in SecondRows}

SpikeStacks == {None, Some(<<Ramp(2), Ramp(2)>>)}

XLims == {None, <<0, 1>>, <<1, 2>>}

\* _infer_labels(center_e)
_infer_labels(center_e) ==
    IF center_e = "trough"
    THEN [labels |-> <<"Trough", "Peak", "Inflection">>,
          keys |-> <<"sample_center", "sample_next", "sample_end">>]
    ELSE [labels |-> <<"Peak", "Trough", "Inflection">>,
          keys |-> <<"sample_center", "sample_next", "sample_end">>]

\* a[i] on an array or table of length n: is position i legal?
InRange(i, n) == -n <= i /\ i < n

\* a[i], i legal
At(a, i) == IF i < 0 THEN a[Len(a) + i + 1] ELSE a[i + 1]

\* The conditions of the if / elif / elif chain.
SingleTaken(index, spikes) == index # None

\* Variant: the stack branch as an if of its own instead of an elif.
StackTakenNoElif(index, spikes) == spikes # None

StackTaken(index, spikes) ==
    ~SingleTaken(index, spikes) /\ index = None /\ spikes # None

ContinuousTaken(index, spikes) ==
    /\ ~SingleTaken(index, spikes) /\ ~StackTaken(index, spikes)
    /\ index = None /\ spikes = None

ModesTaken(index, spikes) ==
    {m \in {"single", "stack", "continuous"} :
        \/ m = "single" /\ SingleTaken(index, spikes)
        \/ m = "stack" /\ StackTaken(index, spikes)
        \/ m = "continuous" /\ ContinuousTaken(index, spikes)}

\* sig[start:end+1], times[start:end+1] of the single-spike branch
SpikeWaveform(s, start, end) == PySlice(s, start, end + 1)

\* The cyclepoint markers drawn before the first illegal sample position.
RECURSIVE Markers(_, _, _, _)
Markers(row, keys, s, times) ==
    IF keys = <<>> THEN [lines |-> <<>>, raised |-> "none"]
    ELSE LET sample == row[Head(keys)]
         IN  IF ~InRange(sample, Len(times)) \/ ~InRange(sample, Len(s))
             THEN [lines |-> <<>>, raised |-> "IndexError"]
             ELSE LET rest == Markers(row, Tail(keys), s, times)
                  IN  [lines |-> <<PLine(<<At(times, sample)>>,
                                         <<At(s, sample)>>, None, None)>>
                                 \o rest.lines,
                       raised |-> rest.raised]

SingleSpike(a) ==
    LET times == Arange(Len(a.sig))
    IN  IF ~InRange(Val(a.index), Len(a.df_features))
        THEN [lines |-> <<>>, raised |-> "IndexError"]
        ELSE LET row == At(a.df_features, Val(a.index))
                 sig_lim == SpikeWaveform(a.sig, row.sample_start,
                                                 row.sample_end)
                 times_lim == SpikeWaveform(times, row.sample_start,
                                                   row.sample_end)
                 m == Markers(row, _infer_labels(a.center_e).keys,
                              a.sig, times)
             IN  [lines |-> <<PLine(times_lim, sig_lim, None, None)>>
                            \o m.lines,
                  raised |-> m.raised]

\* The xlim argument of the stack branch's plot_time_series call.
StackXlim(xlim) == None

StackOfSpikes(a) ==
    LET spikes == Val(a.spikes)
    IN  [lines |-> <<PLine(Arange(Len(spikes[1])), spikes,
                           StackXlim(a.xlim), None)>>,
         raised |-> "none"]

\* bycycle.utils.timeseries.limit_signal(times, sig, start, stop): the
\* samples whose time t has start <= t < stop.  Times are sample numbers,
\* so the bounds are start*fs and stop*fs.
limit_signal(times, s, lo, hi) ==
    SelectSeq([i \in 1..Len(times) |-> [t |-> times[i], v |-> s[i]]],
              LAMBDA e : lo <= e.t /\ e.t < hi)

\* is_spike[start:end] = True
SetMask(mask, start, end) ==
    LET a == SliceBound(start, Len(mask))
        b == SliceBound(end, Len(mask))
    IN  [i \in 1..Len(mask) |-> mask[i] \/ (a < i /\ i <= b)]

RECURSIVE MarkSpikes(_, _, _)
MarkSpikes(mask, starts, ends) ==
    IF starts = <<>> THEN mask
    ELSE MarkSpikes(SetMask(mask, Head(starts), Head(ends)),
                    Tail(starts), Tail(ends))

ContinuousTrace(a) ==
    LET times == Arange(Len(a.sig))
        full == PLine(times, a.sig, a.xlim, None)
        df_lim == IF a.xlim = None THEN a.df_features
                  ELSE SelectSeq(a.df_features,
                           LAMBDA r : /\ r.sample_start >= a.xlim[1] * a.fs
                                      /\ r.sample_end <= a.xlim[2] * a.fs)
        lim == IF a.xlim = None
               THEN [i \in 1..Len(times) |-> [t |-> times[i], v |-> a.sig[i]]]
               ELSE limit_signal(times, a.sig, a.xlim[1] * a.fs,
                                 a.xlim[2] * a.fs)
        sig_lim == [i \in 1..Len(lim) |-> lim[i].v]
        times_lim == [i \in 1..Len(lim) |-> lim[i].t]
        starts == [i \in 1..Len(df_lim) |->
                      IF a.xlim = None THEN df_lim[i].sample_start
                      ELSE df_lim[i].sample_start - a.fs * a.xlim[1]]
        ends == [i \in 1..Len(df_lim) |-> starts[i] + df_lim[i].period]
        is_spike == MarkSpikes([i \in 1..Len(sig_lim) |-> FALSE],
                               starts, ends)
    IN  [lines |-> <<full, PLine(times_lim, sig_lim, None, is_spike)>>,
         raised |-> "none"]

RunMode(m, a) ==
    IF m = "single" THEN SingleSpike(a)
    ELSE IF m = "stack" THEN StackOfSpikes(a)
    ELSE ContinuousTrace(a)

\* The bodies of the branches taken, in source order.
RECURSIVE RunModes(_, _)
RunModes(ms, a) ==
    IF ms = <<>> THEN [lines |-> <<>>, raised |-> "none"]
    ELSE LET first == RunMode(Head(ms), a)
         IN  IF first.raised # "none" THEN first
             ELSE LET rest == RunModes(Tail(ms), a)
                  IN  [lines |-> first.lines \o rest.lines,
                       raised |-> rest.raised]

plot_spikes ==
    /\ call = "none"
    /\ \E df \in SpikeTables, n \in 0..MaxLen, f \in FsSet,
          sp \in SpikeStacks,
          ix \in {None} \cup {Some(i) : i \in -1..2},
          xl \in XLims, ce \in {"trough", "peak"} :
          /\ args' = [df_features |-> df, sig |-> Ramp(n), fs |-> f,
                      spikes |-> sp, index |-> ix, xlim |-> xl,
                      center_e |-> ce]
          /\ modes' = ModesTaken(ix, sp)
          /\ LET out == RunModes(
                     SelectSeq(<<"single", "stack", "continuous">>,
                               LAMBDA m : m \in modes'), args')
             IN  /\ lines' = out.lines
                 /\ raised' = out.raised
    /\ call' = "plot_spikes"
    /\ UNCHANGED gfvars

\* -------------------------------------------------------- plot_gen_spikes
GenSpikes == SeqsFrom1(SeqsFrom1(Vals, MaxSpikeLen), MaxSpikes)

\* Variant: the shift with its sign reversed.
ShiftReversed(trough, align_point) == align_point - trough

\* trough - align_point, in samples
Shift(trough, align_point) == trough - align_point

\* [(x/fs) - shift for x in range(1, 1 + len(spike))]
AlignTimes(spike, fs, shift) ==
    [x \in 1..Len(spike) |-> Frac(x - shift, fs)]

plot_gen_spikes ==
    /\ call = "none"
    /\ \E f \in FsSet, sg \in GenSpikes,
          ix \in {None} \cup {Some(i) : i \in -1..MaxSpikes} :
          /\ args' = [fs |-> f, spikes_gen |-> sg, index |-> ix]
          /\ IF ix # None
             THEN IF InRange(Val(ix), Len(sg))
                  THEN /\ lines' = <<Line(AlignTimes(At(sg, Val(ix)), f, 0),
                                          At(sg, Val(ix)))>>
                       /\ raised' = "none"
                  ELSE /\ lines' = <<>>
                       /\ raised' = "IndexError"
             ELSE LET align_point == ArgMin(sg[1])
                  IN  /\ lines' = [i \in 1..Len(sg) |->
                                     Line(AlignTimes(sg[i], f,
                                              Shift(ArgMin(sg[i]),
                                                    align_point)),
                                          sg[i])]
                      /\ raised' = "none"
    /\ call' = "plot_gen_spikes"
    /\ UNCHANGED <<gfvars, modes>>

\* ---------------------------------------------------------- specification
Init ==
    /\ call = "none"
    /\ args = <<>>
    /\ pc = "idle"
    /\ stages = <<>>
    /\ sig_cyc = <<>> /\ times_cyc = <<>> /\ na_gaus = <<>>
    /\ na_center = 0 /\ rem_sig = <<>>
    /\ rem_sig_k = <<>> /\ rem_sig_cond = <<>>
    /\ times_k = <<>> /\ times_cond = <<>>
    /\ z_score_k = <<>> /\ z_score_cond = <<>>
    /\ cond_params = <<>> /\ k_params = <<>>
    /\ cond_gaus = <<>> /\ k_gaus = <<>>
    /\ figs = <<>>
    /\ raised = "none"
    /\ modes = {}
    /\ lines = <<>>

Next ==
    \/ GFCall
    \/ Extract
    \/ SynthPrimary
    \/ Residual
    \/ Split
    \/ Normalize
    \/ SynthSecondary
    \/ Overlay
    \/ plot_spikes
    \/ plot_gen_spikes

Spec == Init /\ [][Next]_vars

\* ----------------------------------------------------------------- claims
InGF == call = "plot_gaussian_fit"

Ran(stage) == \E i \in 1..Len(stages) : stages[i] = stage

Constant(a) == Len(a) > 0 /\ \A i \in 1..Len(a) : a[i] = a[1]

Clamp(x, lo, hi) == Max(lo, Min(x, hi))

\* C1: after the split, the two residual regions partition the residual:
\* their lengths add up to the cycle length and region_cond followed by
\* region_k is the residual, element for element.
C1_Partition ==
    (InGF /\ Ran("split")) =>
        /\ Len(rem_sig_cond) + Len(rem_sig_k) = Len(sig_cyc)
        /\ Len(rem_sig) = Len(sig_cyc)
        /\ rem_sig_cond \o rem_sig_k = rem_sig

C1_Witness ==
    /\ InGF /\ pc = "done"
    /\ na_center < 0
    /\ Len(rem_sig_cond) > 0 /\ Len(rem_sig_k) > 0

\* C2 (as stated): the number of samples before the split is
\* round(center * L) clamped to [0, L].
C2_RoundedClamped ==
    (InGF /\ Ran("split")) =>
        Len(rem_sig_cond) =
            Clamp(PyRound(args.df_features.Na_center.num * Len(sig_cyc),
                          args.df_features.Na_center.den),
                  0, Len(sig_cyc))

\* C2 (amended): the split index is center * L truncated toward zero, and
\* it is used as a slice bound: n >= 0 leaves min(n, L) samples before the
\* split, n < 0 leaves max(L + n, 0).
C2_Truncated ==
    (InGF /\ Ran("split")) =>
        LET x == args.df_features.Na_center.num * Len(sig_cyc)
            d == args.df_features.Na_center.den
            L == Len(sig_cyc)
        IN  /\ x >= 0 => (na_center * d <= x /\ x < (na_center + 1) * d)
            /\ x < 0 => ((na_center - 1) * d < x /\ x <= na_center * d)
            /\ na_center >= 0 => Len(rem_sig_cond) = Min(na_center, L)
            /\ na_center < 0 => Len(rem_sig_cond) = Max(L + na_center, 0)
            /\ times_cond = Arange(Len(rem_sig_cond))

C2_Witness ==
    /\ InGF /\ pc = "done"
    /\ (args.df_features.Na_center.num * Len(sig_cyc))
           % args.df_features.Na_center.den # 0
    /\ na_center > 0 /\ na_center < Len(sig_cyc)

\* C3: normalizing a constant region raises DegenerateRegionError; no NaN
\* z-score is produced.
C3_DegenerateRaises ==
    (InGF /\ Ran("normalize") /\ (Constant(rem_sig_cond) \/ Constant(rem_sig_k)))
        => /\ raised = "DegenerateRegionError"
           /\ \A i \in 1..Len(z_score_cond) : ~z_score_cond[i].nan
           /\ \A i \in 1..Len(z_score_k) : ~z_score_k[i].nan

\* C4: when the split leaves a region of length 0, normalization fails with
\* EmptyRegionError and neither secondary synthesis nor the overlay runs.
C4_EmptyRaises ==
    (InGF /\ pc \notin {"extract", "primary", "residual", "split", "normalize"}
          /\ (Len(rem_sig_cond) = 0 \/ Len(rem_sig_k) = 0))
        => /\ raised = "EmptyRegionError"
           /\ ~Ran("secondary") /\ ~Ran("overlay")

\* C5: for 0 <= start <= end < len(sig) the extracted waveform has
\* end - start + 1 samples and its sample i is sig[start + i].
InclusiveCut(w, s, start, end) ==
    /\ Len(w) = end - start + 1
    /\ \A i \in 0..(end - start) : w[i + 1] = s[start + i + 1]

C5_Extraction ==
    /\ (InGF /\ Ran("extract")
             /\ 0 <= args.df_features.sample_start
             /\ args.df_features.sample_start <= args.df_features.sample_end
             /\ args.df_features.sample_end < Len(args.sig))
           => /\ InclusiveCut(sig_cyc, args.sig,
                              args.df_features.sample_start,
                              args.df_features.sample_end)
              /\ times_cyc = Arange(Len(sig_cyc))
    /\ (call = "plot_spikes" /\ args.index # None
             /\ InRange(Val(args.index), Len(args.df_features)))
           => LET row == At(args.df_features, Val(args.index))
              IN  (/\ 0 <= row.sample_start
                   /\ row.sample_start <= row.sample_end
                   /\ row.sample_end < Len(args.sig))
                      => /\ Len(lines) > 0
                         /\ InclusiveCut(lines[1].y, args.sig,
                                         row.sample_start, row.sample_end)

C5_Witness ==
    /\ InGF /\ pc = "done"
    /\ 0 < args.df_features.sample_start
    /\ args.df_features.sample_start < args.df_features.sample_end
    /\ args.df_features.sample_end < Len(args.sig)

\* C6: extraction fails with IndexError when start or end lies outside the
\* waveform, and with InvalidRangeError when end < start.
C6_ExtractionRaises ==
    (InGF /\ Ran("extract")) =>
        LET start == args.df_features.sample_start
            end == args.df_features.sample_end
            n == Len(args.sig)
        IN  /\ (start < 0 \/ start >= n \/ end < 0 \/ end >= n)
                   => raised = "IndexError"
            /\ (0 <= end /\ end < start /\ start < n)
                   => raised = "InvalidRangeError"

C8_OneMode ==
    (call = "plot_spikes") =>
        /\ Cardinality(modes) = 1
        /\ args.index # None => modes = {"single"}
        /\ (args.index = None /\ args.spikes # None) => modes = {"stack"}
        /\ (args.index = None /\ args.spikes = None) => modes = {"continuous"}
        /\ modes # {"continuous"} =>
               \A i \in 1..Len(lines) : lines[i].xlim = None
        /\ modes = {"continuous"} =>
               Len(lines) = 2 /\ lines[1].xlim = args.xlim
        /\ modes = {"stack"} =>
               /\ Len(lines) = 1
               /\ lines[1].y = Val(args.spikes)
               /\ lines[1].x = Arange(Len(Val(args.spikes)[1]))
        /\ modes = {"single"} =>
               \A i \in 1..Len(lines) : \A k \in 1..Len(lines[i].y) :
                   lines[i].y[k] \in {args.sig[p] : p \in 1..Len(args.sig)}

C8_Witness ==
    /\ call = "plot_spikes"
    /\ args.index # None /\ args.spikes # None /\ args.xlim # None
    /\ raised = "none" /\ Len(lines) = 4

\* C9: the stages of plot_gaussian_fit run in one fixed order, each once,
\* whatever the thresholds and the z-scores are.
StageOrder == <<"extract", "primary", "residual", "split", "normalize",
                "secondary", "overlay">>

C9_FixedOrder ==
    InGF =>
        /\ Len(stages) <= Len(StageOrder)
        /\ stages = SubSeq(StageOrder, 1, Len(stages))
        /\ pc = IF Len(stages) = Len(StageOrder) THEN "done"
                ELSE StageOrder[Len(stages) + 1]

C9_Witness ==
    /\ InGF /\ pc = "done"
    /\ \E i \in 1..Len(z_score_k) : Exceeds(z_score_k[i], args.z_thresh_k)

\* C10: with index None every generated spike's first minimum is drawn at
\* the time (argmin(spikes_gen[0]) + 1)/fs, and the first spike is not
\* shifted.
FirstMin(s, j) ==
    /\ \A k \in 1..Len(s) : s[j] <= s[k]
    /\ \A k \in 1..(j - 1) : s[k] > s[j]

C10_Aligned ==
    (call = "plot_gen_spikes" /\ args.index = None) =>
        /\ Len(lines) = Len(args.spikes_gen)
        /\ lines[1].x = [x \in 1..Len(args.spikes_gen[1]) |->
                            Frac(x, args.fs)]
        /\ \A i \in 1..Len(lines) :
             \A j \in 1..Len(args.spikes_gen[i]) :
               \A m \in 1..Len(args.spikes_gen[1]) :
                 (FirstMin(args.spikes_gen[i], j)
                      /\ FirstMin(args.spikes_gen[1], m))
                     => lines[i].x[j] = Frac(m, args.fs)

C10_Witness ==
    /\ call = "plot_gen_spikes" /\ args.index = None
    /\ Len(args.spikes_gen) = 2
    /\ Len(args.spikes_gen[2]) = 2
    /\ FirstMin(args.spikes_gen[1], 1)
    /\ FirstMin(args.spikes_gen[2], 2)

====
